---- MODULE Spec2Model ----
(***************************************************************************)
(* Model of the S3 upload pipeline of app/uploader.py:                     *)
(*   run_job -> upload_to_s3_in_batch -> worker -> upload_file_to_s3       *)
(*           -> upload_large_file_multipart                                *)
(* One action per suspension point (await) of the asyncio code; the        *)
(* synchronous code between two awaits belongs to the action that ends at  *)
(* the later await.  The object store, the file system and the progress    *)
(* handler are the environment: every call to them either returns or       *)
(* raises, chosen with \E.                                                 *)
(***************************************************************************)
EXTENDS Integers, Sequences, FiniteSets, TLC

\* ------------------------------------------------------------------ bounds
MaxEntries == 2

\* --------------------------------------------------------------- constants
MULTIPART_THRESHOLD == 50 * 1024 * 1024
PART_SIZE == 8 * 1024 * 1024
IO_CONCURRENCY == 32
NETWORK_CONCURRENCY == 100

EntryIds == 1 .. MaxEntries

\* settings.WORKER_CONCURRENCY and settings.S3_MAX_CONCURRENCY: the values
\* the runs are configured with (a negative number of workers, none, one,
\* two; one permit, two).
WorkerConcurrencyValues == {-1, 0, 1, 2}
S3MaxConcurrencyValues == {1, 2}

\* Settings.IO_CONCURRENCY as the runs are configured with (the environment
\* overrides the default): one read at a time, and the default.  No code of
\* the pipeline reads the setting, so it is not part of the state.
IoConcurrencyValues == {1, IO_CONCURRENCY}

\* Job.count (Optional[int]) as a sequence: <<>> is None, <<k>> is the int k.
\* The limits the runs are asked with: none, and 0, 1 or 2 files.
None == <<>>
CountValues == {0, 1, 2}
Counts == {None} \cup {<<k>> : k \in CountValues}

\* How many PENDING jobs of the given manifest or load id the job service
\* has when the run command is given: none, one, several.
PendingJobCounts == {0, 1, 2}

\* ------------------------------------------------------------- environment
\* Source files: what path.is_file(), path.stat().st_size and the reads see.
\*   "ok"         regular readable file
\*   "missing"    is_file() is false
\*   "unreadable" is_file() and stat() work, opening for read raises
FileSizes == {MULTIPART_THRESHOLD - 1, MULTIPART_THRESHOLD, 7 * PART_SIZE}
Files ==
    {[kind |-> "missing", size |-> 0]}
    \cup [kind : {"ok"}, size : FileSizes]
    \cup [kind : {"unreadable"},
          size : {MULTIPART_THRESHOLD - 1, MULTIPART_THRESHOLD}]

NoEntry == 0
NoError == "none"
NoBody == [lo |-> 0, hi |-> 0]

Min(a, b) == IF a < b THEN a ELSE b
Max(a, b) == IF a > b THEN a ELSE b

\* Settings.BUFFER_QUEUE_SIZE: max(IO_CONCURRENCY, NETWORK_CONCURRENCY) * 2
BUFFER_QUEUE_SIZE == Max(IO_CONCURRENCY, NETWORK_CONCURRENCY) * 2

VARIABLES
    job,                \* Job: mock, aws_unsigned, count, status
    MULTIPART_ENABLED,  \* module-level tunable of uploader.py
    WORKER_CONCURRENCY, \* settings.WORKER_CONCURRENCY
    S3_MAX_CONCURRENCY, \* settings.S3_MAX_CONCURRENCY
    entries,            \* manifest.entries: sequence of entry ids
    files,              \* entry id -> source file
    mainPc,             \* position of run_job / upload_to_s3_in_batch
    q,                  \* asyncio.Queue contents
    unfinished,         \* asyncio.Queue unfinished-task counter
    semaphore,          \* free permits of the upload semaphore
    worker,             \* worker id -> locals of worker / upload_file_to_s3
    bucket,             \* entry id -> object stored under the entry's key
    io,                 \* entry id -> was the file system / the store used,
                        \*             did a read or a write raise
    events,             \* entry id -> entry updates given to the handler
    handler,            \* counters of the job's progress handler
    updates,            \* job updates the job service has accepted
    pending_jobs        \* number of jobs get_pending_jobs returns to the CLI

vars == <<job, MULTIPART_ENABLED, WORKER_CONCURRENCY, S3_MAX_CONCURRENCY,
          entries, files, mainPc, q, unfinished, semaphore, worker, bucket,
          io, events, handler, updates, pending_jobs>>

\* Everything a run never changes after Init.
config == <<MULTIPART_ENABLED, WORKER_CONCURRENCY, S3_MAX_CONCURRENCY, entries,
            files, pending_jobs>>

Workers == DOMAIN worker

\* ------------------------------------------------------------ pure helpers
\* upload_to_s3_in_batch: concurrency = max(1, settings.WORKER_CONCURRENCY)
Concurrency_raw(wc) == wc
Concurrency(wc) == Max(1, wc)

\* Python's s[:k]: the first k items, or all but the last -k when k < 0.
SliceTo_inclusive(s, k) ==
    IF k >= 0 THEN SubSeq(s, 1, Min(k + 1, Len(s)))
    ELSE SubSeq(s, 1, Max(0, Len(s) + k))
SliceTo(s, k) ==
    IF k >= 0 THEN SubSeq(s, 1, Min(k, Len(s)))
    ELSE SubSeq(s, 1, Max(0, Len(s) + k))

\* upload_to_s3_in_batch: entries = manifest.entries[:job.count] when the
\* job has a count and the manifest has entries, manifest.entries otherwise.
SelectEntries(manifest_entries, count) ==
    IF count # None /\ manifest_entries # <<>>
    THEN SliceTo(manifest_entries, count[1])
    ELSE manifest_entries

\* MessageHandler.__init__(total_files)
MessageHandlerInit(total_files) ==
    [total_files |-> total_files, uploaded_files |-> 0,
     uploaded_size_bytes |-> 0]

\* MessageHandler.handle_update(message, completed, uploaded_size_bytes)
HandleUpdate_always(h, completed, uploaded_size_bytes) ==
    [h EXCEPT !.uploaded_files = @ + 1,
              !.uploaded_size_bytes = @ + uploaded_size_bytes]
HandleUpdate(h, completed, uploaded_size_bytes) ==
    IF completed
    THEN [h EXCEPT !.uploaded_files = @ + 1,
                   !.uploaded_size_bytes = @ + uploaded_size_bytes]
    ELSE h

\* update_job: the JobUpdate payload put to the job service (its timestamps
\* are left out); uploaded_files is None or <<n>>.
JobUpdate(status, uploaded_files) ==
    [status |-> status, uploaded_files |-> uploaded_files]

\* upload_to_s3_in_batch: the one handler built before the workers start is
\* the object handed to every upload_file_to_s3 call (handler=handler).
HandlerOfCall_fresh(h) == MessageHandlerInit(h.total_files)
HandlerOfCall(h) == h

\* upload_to_s3_in_batch: the status handed to handler.handle_job_update
\* after the workers are gathered.
FinalJobStatus_error(h) ==
    IF h.uploaded_files < h.total_files THEN "ERROR" ELSE "COMPLETED"
FinalJobStatus(h) == "COMPLETED"

\* upload_file_to_s3: the mock branch returns before any path access.
SkipsIO_never(mock) == FALSE
SkipsIO(mock) == mock

\* upload_file_to_s3: the condition that selects the multipart path.
UseMultipart_gt(enabled, size, unsigned) ==
    enabled /\ size > MULTIPART_THRESHOLD /\ ~unsigned
UseMultipart_signed(enabled, size, unsigned) ==
    enabled /\ size >= MULTIPART_THRESHOLD
UseMultipart(enabled, size, unsigned) ==
    enabled /\ size >= MULTIPART_THRESHOLD /\ ~unsigned

\* upload_large_file_multipart: chunk_size = min(PART_SIZE, file_size - offset)
ChunkSize_rest(file_size, offset) == file_size - offset
ChunkSize(file_size, offset) == Min(PART_SIZE, file_size - offset)

\* _read_chunk: f.seek(off); f.read(sz) gives the bytes [off, off+sz) that
\* exist in a file of file_size bytes, as the half-open range lo..hi.
ReadChunk(file_size, off, sz) ==
    [lo |-> Min(off, file_size), hi |-> Min(off + sz, file_size)]

\* path.read_bytes(): the whole file.
ReadBytes(file_size) == [lo |-> 0, hi |-> file_size]

\* upload_large_file_multipart: offset += chunk_size
NextOffset_overlap(offset, chunk_size) == offset + chunk_size - 1
NextOffset(offset, chunk_size) == offset + chunk_size

\* upload_large_file_multipart: `while offset < file_size'
LoopPc_early(offset, file_size) ==
    IF offset + PART_SIZE < file_size THEN "mp_read" ELSE "mp_complete"
LoopPc(offset, file_size) == IF offset < file_size THEN "mp_read" ELSE "mp_complete"

\* upload_file_to_s3: after put_object returned or raised, the entry update
\* is built; the call is not made again.
PcAfterPut_retry(ok) == IF ok THEN "notify" ELSE "put"
PcAfterPut(ok) == "notify"

\* upload_large_file_multipart: parts.append({"ETag": etag, "PartNumber":
\* part_number}), before part_number += 1.
PartRecord_next(etag, part_number) ==
    [ETag |-> etag, PartNumber |-> part_number + 1]
PartRecord(etag, part_number) ==
    [ETag |-> etag, PartNumber |-> part_number]

\* App.run_job: `if not jobs: return', `if len(jobs) > 1: return', else
\* jobs[0] is run.
RunsJob_first(n) == n >= 1
RunsJob(n) == ~(n = 0) /\ ~(n > 1)

\* upload_to_s3_in_batch: `not job.manifest or not job.manifest.entries',
\* true for a missing and for an empty entry list alike.
NoManifestEntries_never(manifest_entries) == FALSE
NoManifestEntries(manifest_entries) == Len(manifest_entries) = 0

\* upload_large_file_multipart: where control goes when the body of the
\* part loop or the completion raises: the except clause attempts an abort.
PcAfterPartError_complete == "mp_complete"
PcAfterPartError == "mp_abort"
PcAfterCompleteError_raise == "notify"
PcAfterCompleteError == "mp_abort"

\* upload_large_file_multipart: the bare `raise' after the abort attempt
\* re-raises the exception caught by the outer except clause.
RaisedAfterAbort_last(err, abort_ok) == IF abort_ok THEN err ELSE "AbortError"
RaisedAfterAbort(err, abort_ok) == err

\* asyncio.Semaphore.acquire(): returns at once only while a permit is free.
CanAcquire_always(value) == TRUE
CanAcquire(value) == value > 0

\* worker: finally: q.task_done()
TaskDone_twice(n, status) == IF status = "ERROR" THEN n - 2 ELSE n - 1
TaskDone(n, status) == n - 1

\* asyncio.Queue.get(): the item is removed from the queue.
QueueRest_peek(queue) == queue
QueueRest(queue) == Tail(queue)

\* upload_to_s3_in_batch: w.cancel() for every worker, then gather: a worker
\* waiting in q.get() gets CancelledError there and its task ends.
CancelledPc_forgotten(pc) == pc
CancelledPc(pc) == "cancelled"

\* upload_to_s3_in_batch: await q.join() returns when no task is unfinished.
JoinReady_early(n) == n <= 1
JoinReady(n) == n <= 0

\* Locals of one worker task and of the upload_file_to_s3 /
\* upload_large_file_multipart call it is in.  calls and fs record what the
\* call in progress has asked of the object store and of the file system.
IdleWorker ==
    [pc |-> "idle", entry |-> NoEntry, err |-> NoError,
     upload_id |-> NoEntry, parts |-> <<>>, part_number |-> 0, offset |-> 0,
     file_size |-> 0, chunk_size |-> 0, body |-> NoBody,
     calls |-> <<>>, fs |-> 0]

\* One object-store call as the client sees it.
S3Call(op, part, body, parts, ok) ==
    [op |-> op, PartNumber |-> part, Body |-> body, Parts |-> parts, ok |-> ok]

\* ------------------------------------------------------------ object store
\* The ETag the store returns for part n of a session.
ETagOf(upload_id, n) == <<upload_id, n>>

\* The parts of a session the store has accepted, in the order received.
AcceptedParts(calls) ==
    SelectSeq(calls, LAMBDA c : c.op = "upload_part" /\ c.ok)

\* The body the store holds for part number n of a session.
RECURSIVE PartBody(_, _)
PartBody(accepted, n) ==
    IF accepted = <<>> THEN NoBody
    ELSE IF accepted[Len(accepted)].PartNumber = n
         THEN accepted[Len(accepted)].Body
         ELSE PartBody(SubSeq(accepted, 1, Len(accepted) - 1), n)

\* Byte ranges joined end to end: two ranges that meet become one.
RECURSIVE Coalesce(_)
Coalesce(ranges) ==
    IF Len(ranges) < 2 THEN ranges
    ELSE LET r == Coalesce(Tail(ranges))
             a == Head(ranges)
         IN  IF a.hi = Head(r).lo
             THEN <<[lo |-> a.lo, hi |-> Head(r).hi]>> \o Tail(r)
             ELSE <<a>> \o r

\* complete_multipart_upload: the object is the bodies of the listed parts,
\* concatenated in the order of the Parts list.
Assemble(calls, Parts) ==
    Coalesce([i \in 1 .. Len(Parts) |->
                PartBody(AcceptedParts(calls), Parts[i].PartNumber)])

\* -------------------------------------------------------------------- Init
Init ==
    /\ job \in [mock : BOOLEAN, aws_unsigned : BOOLEAN, count : Counts,
                status : {"PENDING"}]
    /\ MULTIPART_ENABLED \in BOOLEAN
    /\ WORKER_CONCURRENCY \in WorkerConcurrencyValues
    /\ S3_MAX_CONCURRENCY \in S3MaxConcurrencyValues
    /\ \E n \in 0 .. MaxEntries : entries = [i \in 1 .. n |-> i]
    /\ files \in [EntryIds -> Files]
    \* The file of an entry the run does not select is never looked at.
    /\ \A e \in EntryIds :
         e > Len(SelectEntries(entries, job.count))
            => files[e] = [kind |-> "missing", size |-> 0]
    /\ pending_jobs \in PendingJobCounts
    /\ mainPc = "app_run_job"
    /\ q = <<>>
    /\ unfinished = 0
    /\ semaphore = 0
    /\ worker = <<>>
    /\ bucket = [e \in EntryIds |-> <<>>]
    /\ io = [e \in EntryIds |-> [fs |-> FALSE, s3 |-> FALSE, failed |-> FALSE]]
    /\ events = [e \in EntryIds |-> <<>>]
    /\ handler = MessageHandlerInit(0)
    /\ updates = <<>>

\* ----------------------------------------------------------------- actions
\* App.run_job of the CLI: jobs = utils.get_pending_jobs(...); with no
\* pending job or several it logs and returns, with one it calls
\* asyncio.run(uploader.run_job(job)).
AppRunJob ==
    /\ mainPc = "app_run_job"
    /\ mainPc' = IF RunsJob(pending_jobs) THEN "run_job" ELSE "not_run"
    /\ UNCHANGED <<job, config, updates, q, unfinished, semaphore, worker,
                   bucket, io, events, handler>>

\* run_job: job.status = RUNNING, then await update_job(job.id, status, ...)
\* puts the update to the job service; raise_for_status() raises when the
\* service does not accept it, and run_job has no handler for that.
RunJob ==
    /\ mainPc = "run_job"
    /\ job' = [job EXCEPT !.status = "RUNNING"]
    /\ \E ok \in BOOLEAN :
         IF ok
         THEN /\ updates' = Append(updates, JobUpdate("RUNNING", None))
              /\ mainPc' = "batch"
         ELSE /\ mainPc' = "raised"
              /\ UNCHANGED updates
    /\ UNCHANGED <<config, q, unfinished, semaphore, worker, bucket, io,
                   events, handler>>

\* upload_to_s3_in_batch up to the end of the producer loop: the guard on
\* an empty manifest, the semaphore, the handler, the queue and
\* `for entry in entries: await q.put(entry)', which never waits on the
\* unbounded queue.
StartBatch ==
    /\ mainPc = "batch"
    /\ IF NoManifestEntries(entries)
       THEN /\ mainPc' = "returned"
            /\ UNCHANGED <<q, unfinished, semaphore, worker, handler>>
       ELSE /\ semaphore' = S3_MAX_CONCURRENCY
            /\ handler' = MessageHandlerInit(
                              Len(SelectEntries(entries, job.count)))
            /\ q' = SelectEntries(entries, job.count)
            /\ unfinished' = Len(SelectEntries(entries, job.count))
            /\ mainPc' = "start_workers"
            /\ UNCHANGED worker
    /\ UNCHANGED <<job, config, updates, bucket, io, events>>

\* upload_to_s3_in_batch: workers = [asyncio.create_task(worker(i)) for i in
\* range(concurrency)], after the producer loop; the tasks first run when
\* the main task awaits q.join().
StartWorkers ==
    /\ mainPc = "start_workers"
    /\ worker' = [w \in 0 .. (Concurrency(WORKER_CONCURRENCY) - 1)
                    |-> IdleWorker]
    /\ mainPc' = "join"
    /\ UNCHANGED <<job, config, handler, updates, q, unfinished, semaphore,
                   bucket, io, events>>

\* worker: entry = await q.get()
WorkerGet(w) ==
    /\ mainPc = "join"
    /\ worker[w].pc = "idle"
    /\ q # <<>>
    /\ worker' = [worker EXCEPT ![w].pc = "acquire", ![w].entry = Head(q)]
    /\ q' = QueueRest(q)
    /\ UNCHANGED <<job, config, handler, updates, mainPc, unfinished, semaphore, bucket, io,
                   events>>

\* upload_file_to_s3 from `async with semaphore' to its first await: the
\* mock branch, path.is_file(), path.stat() and the choice of the write path.
AcquireSemaphore(w) ==
    /\ mainPc = "join"
    /\ worker[w].pc = "acquire"
    /\ CanAcquire(semaphore)
    /\ semaphore' = semaphore - 1
    /\ LET e == worker[w].entry
           f == files[e]
       IN  IF SkipsIO(job.mock)
           THEN /\ worker' = [worker EXCEPT ![w].pc = "notify"]
                /\ UNCHANGED io
           ELSE IF f.kind = "missing"
           THEN /\ worker' = [worker EXCEPT ![w].pc = "notify",
                                            ![w].fs = @ + 1,
                                            ![w].err = "FileNotFoundError"]
                /\ io' = [io EXCEPT ![e].fs = TRUE, ![e].failed = TRUE]
           ELSE /\ worker' = [worker EXCEPT
                      ![w].fs = @ + 2,
                      ![w].pc = IF UseMultipart(MULTIPART_ENABLED, f.size,
                                                job.aws_unsigned)
                                THEN "mp_create" ELSE "read"]
                /\ io' = [io EXCEPT ![e].fs = TRUE]
    /\ UNCHANGED <<job, config, handler, updates, mainPc, q, unfinished, bucket, events>>

\* upload_file_to_s3: body = await asyncio.to_thread(path.read_bytes)
ReadFile(w) ==
    /\ mainPc = "join"
    /\ worker[w].pc = "read"
    /\ LET e == worker[w].entry
           f == files[e]
       IN  IF f.kind = "unreadable"
           THEN /\ worker' = [worker EXCEPT ![w].pc = "notify",
                                            ![w].fs = @ + 1,
                                            ![w].err = "ReadError"]
                /\ io' = [io EXCEPT ![e].failed = TRUE]
           ELSE /\ worker' = [worker EXCEPT ![w].pc = "put",
                                            ![w].fs = @ + 1,
                                            ![w].body = ReadBytes(f.size)]
                /\ UNCHANGED io
    /\ UNCHANGED <<job, config, handler, updates, mainPc, q, unfinished, semaphore, bucket,
                   events>>

\* upload_file_to_s3: await client.put_object(Body=body, ...)
PutObject(w) ==
    /\ mainPc = "join"
    /\ worker[w].pc = "put"
    /\ LET e == worker[w].entry
       IN  \E ok \in BOOLEAN :
             /\ worker' = [worker EXCEPT
                    ![w].pc = PcAfterPut(ok),
                    ![w].calls = Append(@, S3Call("put_object", 0,
                                                  worker[w].body, <<>>, ok)),
                    ![w].err = IF ok THEN NoError ELSE "PutError"]
             /\ bucket' = IF ok THEN [bucket EXCEPT ![e] = <<worker[w].body>>]
                          ELSE bucket
             /\ io' = [io EXCEPT ![e].s3 = TRUE, ![e].failed = @ \/ ~ok]
    /\ UNCHANGED <<job, config, handler, updates, mainPc, q, unfinished, semaphore, events>>

\* upload_large_file_multipart: await client.create_multipart_upload(...),
\* then parts = [], part_number = 1, file_size = path.stat().st_size,
\* offset = 0 and the first test of the while loop.  When the call raises,
\* the error is logged and re-raised without any abort.
CreateMultipartUpload(w) ==
    /\ mainPc = "join"
    /\ worker[w].pc = "mp_create"
    /\ LET e == worker[w].entry
           f == files[e]
           call(ok) == S3Call("create_multipart_upload", 0, NoBody, <<>>, ok)
       IN  \E ok \in BOOLEAN :
             /\ IF ok
                THEN worker' = [worker EXCEPT
                         ![w].calls = Append(@, call(ok)),
                         ![w].upload_id = e,
                         ![w].parts = <<>>,
                         ![w].part_number = 1,
                         ![w].file_size = f.size,
                         ![w].fs = @ + 1,
                         ![w].offset = 0,
                         ![w].pc = LoopPc(0, f.size)]
                ELSE worker' = [worker EXCEPT
                         ![w].calls = Append(@, call(ok)),
                         ![w].pc = "notify",
                         ![w].err = "CreateError"]
             /\ io' = [io EXCEPT ![e].s3 = TRUE, ![e].failed = @ \/ ~ok]
    /\ UNCHANGED <<job, config, handler, updates, mainPc, q, unfinished, semaphore, bucket,
                   events>>

\* upload_large_file_multipart: chunk_size = min(PART_SIZE, file_size - offset)
\* and chunk = await asyncio.to_thread(_read_chunk)
ReadChunkStep(w) ==
    /\ mainPc = "join"
    /\ worker[w].pc = "mp_read"
    /\ LET e == worker[w].entry
           f == files[e]
           sz == ChunkSize(worker[w].file_size, worker[w].offset)
       IN  IF f.kind = "unreadable"
           THEN /\ worker' = [worker EXCEPT ![w].pc = PcAfterPartError,
                                            ![w].fs = @ + 1,
                                            ![w].chunk_size = sz,
                                            ![w].err = "ReadError"]
                /\ io' = [io EXCEPT ![e].failed = TRUE]
           ELSE /\ worker' = [worker EXCEPT
                       ![w].pc = "mp_part",
                       ![w].fs = @ + 1,
                       ![w].chunk_size = sz,
                       ![w].body = ReadChunk(f.size, worker[w].offset, sz)]
                /\ UNCHANGED io
    /\ UNCHANGED <<job, config, handler, updates, mainPc, q, unfinished, semaphore, bucket,
                   events>>

\* upload_large_file_multipart: await client.upload_part(...), then
\* parts.append, part_number += 1, offset += chunk_size and the loop test.
UploadPart(w) ==
    /\ mainPc = "join"
    /\ worker[w].pc = "mp_part"
    /\ LET n == worker[w].part_number
           off == NextOffset(worker[w].offset, worker[w].chunk_size)
           call(ok) == S3Call("upload_part", n, worker[w].body, <<>>, ok)
       IN  \E ok \in BOOLEAN :
             IF ok
             THEN /\ worker' = [worker EXCEPT
                        ![w].calls = Append(@, call(ok)),
                        ![w].parts = Append(@,
                            PartRecord(ETagOf(worker[w].upload_id, n), n)),
                        ![w].part_number = n + 1,
                        ![w].offset = off,
                        ![w].pc = LoopPc(off, worker[w].file_size)]
                  /\ UNCHANGED io
             ELSE /\ worker' = [worker EXCEPT
                        ![w].calls = Append(@, call(ok)),
                        ![w].pc = PcAfterPartError,
                        ![w].err = "PartError"]
                  /\ io' = [io EXCEPT ![worker[w].entry].failed = TRUE]
    /\ UNCHANGED <<job, config, handler, updates, mainPc, q, unfinished, semaphore, bucket,
                   events>>

\* upload_large_file_multipart: await client.complete_multipart_upload(...)
CompleteMultipartUpload(w) ==
    /\ mainPc = "join"
    /\ worker[w].pc = "mp_complete"
    /\ LET e == worker[w].entry
           call(ok) == S3Call("complete_multipart_upload", 0, NoBody,
                              worker[w].parts, ok)
       IN  \E ok \in BOOLEAN :
             IF ok
             THEN /\ worker' = [worker EXCEPT
                        ![w].calls = Append(@, call(ok)),
                        ![w].pc = "notify"]
                  /\ bucket' = [bucket EXCEPT
                        ![e] = Assemble(worker[w].calls, worker[w].parts)]
                  /\ UNCHANGED io
             ELSE /\ worker' = [worker EXCEPT
                        ![w].calls = Append(@, call(ok)),
                        ![w].pc = PcAfterCompleteError,
                        ![w].err = "CompleteError"]
                  /\ io' = [io EXCEPT ![e].failed = TRUE]
                  /\ UNCHANGED bucket
    /\ UNCHANGED <<job, config, handler, updates, mainPc, q, unfinished, semaphore, events>>

\* upload_large_file_multipart, except clause: the abort attempt, whose own
\* failure is swallowed, then the bare raise.
AbortMultipartUpload(w) ==
    /\ mainPc = "join"
    /\ worker[w].pc = "mp_abort"
    /\ \E ok \in BOOLEAN :
         worker' = [worker EXCEPT
            ![w].calls = Append(@, S3Call("abort_multipart_upload", 0, NoBody,
                                          <<>>, ok)),
            ![w].pc = "notify",
            ![w].err = RaisedAfterAbort(worker[w].err, ok)]
    /\ UNCHANGED <<job, config, handler, updates, mainPc, q, unfinished, semaphore, bucket,
                   io, events>>

\* upload_file_to_s3: the entry update built for the handler: COMPLETED
\* after a write that returned (or in mock mode), ERROR with the exception
\* otherwise.
EntryLog_completed(w) ==
    [status |-> "COMPLETED", error |-> worker[w].err]
EntryLog(w) ==
    [status |-> IF worker[w].err = NoError THEN "COMPLETED" ELSE "ERROR",
     error |-> worker[w].err]

\* JobEntryLogRequest.uploaded_size_bytes of that update: upload_file_to_s3
\* never assigns it, so it is the default of the model class.
UploadedSizeBytes(entry_log) == 0

\* JobUploadHandler.handle_job_entry_update(entry_log): receives the update.
HandleJobEntryUpdate(log, entry_log) == Append(log, entry_log)

\* JobUploadHandler.handle_job_entry_update(entry_log): counts the update
\* as MessageHandler.handle_update does, completed on a COMPLETED status.
HandleEntryCount(h, entry_log) ==
    HandleUpdate(h, entry_log.status = "COMPLETED",
                 UploadedSizeBytes(entry_log))

\* JobUploadHandler.handle_job_update(status, ...): the update put to the
\* job service through update_job, with the handler's count of files.
HandleJobUpdate(h, status) == JobUpdate(status, <<h.uploaded_files>>)

\* upload_file_to_s3: await handler.handle_job_entry_update(entry_log) on
\* the mock, the error and the success path; then the semaphore is released
\* and the worker's finally clause calls q.task_done().
Notify(w) ==
    /\ mainPc = "join"
    /\ worker[w].pc = "notify"
    /\ events' = [events EXCEPT ![worker[w].entry] =
                     HandleJobEntryUpdate(@, EntryLog(w))]
    /\ handler' = HandleEntryCount(HandlerOfCall(handler), EntryLog(w))
    /\ semaphore' = semaphore + 1
    /\ unfinished' = TaskDone(unfinished, EntryLog(w).status)
    /\ worker' = [worker EXCEPT ![w] = IdleWorker]
    /\ UNCHANGED <<job, config, updates, mainPc, q, bucket, io>>

\* Workers between `async with semaphore' and its exit hold one permit.
HoldsPermit(w) == worker[w].pc \notin {"idle", "acquire", "cancelled"}

\* upload_to_s3_in_batch: await q.join() returns, every worker is cancelled
\* and gathered.  A cancelled worker leaves its `async with' and runs its
\* finally clause.
JoinAndCancel ==
    /\ mainPc = "join"
    /\ JoinReady(unfinished)
    /\ mainPc' = "finalize"
    /\ semaphore' = semaphore + Cardinality({w \in Workers : HoldsPermit(w)})
    /\ unfinished' = unfinished
                      - Cardinality({w \in Workers : worker[w].pc # "idle"})
    /\ worker' = [w \in Workers |->
                    [worker[w] EXCEPT !.pc = CancelledPc(@)]]
    /\ UNCHANGED <<job, config, handler, updates, q, bucket, io, events>>

\* upload_to_s3_in_batch: handler.handle_job_update(status=COMPLETED, ...),
\* then back in run_job: job = get_job_by_id(job.id), the job as the
\* service has it.
Finalize ==
    /\ mainPc = "finalize"
    /\ updates' = Append(updates,
                         HandleJobUpdate(handler, FinalJobStatus(handler)))
    /\ job' = [job EXCEPT !.status = updates'[Len(updates')].status]
    /\ mainPc' = "done"
    /\ UNCHANGED <<config, q, unfinished, semaphore, worker, bucket, io,
                   events, handler>>

Next ==
    \/ AppRunJob
    \/ RunJob
    \/ StartBatch
    \/ StartWorkers
    \/ \E w \in Workers : WorkerGet(w)
    \/ \E w \in Workers : AcquireSemaphore(w)
    \/ \E w \in Workers : ReadFile(w)
    \/ \E w \in Workers : PutObject(w)
    \/ \E w \in Workers : CreateMultipartUpload(w)
    \/ \E w \in Workers : ReadChunkStep(w)
    \/ \E w \in Workers : UploadPart(w)
    \/ \E w \in Workers : CompleteMultipartUpload(w)
    \/ \E w \in Workers : AbortMultipartUpload(w)
    \/ \E w \in Workers : Notify(w)
    \/ JoinAndCancel
    \/ Finalize

Spec == Init /\ [][Next]_vars

\* The event loop always runs a task that is ready, and every awaited call
\* returns or raises: a step that can be taken is eventually taken.
SpecFair == Spec /\ WF_vars(Next)

\* ----------------------------------------------------------- cancellation
\* The status of the job as the job service has it.
ServiceStatus ==
    IF updates = <<>> THEN "PENDING" ELSE updates[Len(updates)].status

\* App.cancel_job, run by an operator in another process: every active
\* (pending or running) job is put to CANCELLED with update_job.
CancelJob ==
    /\ ServiceStatus \in {"PENDING", "RUNNING"}
    /\ updates' = Append(updates, JobUpdate("CANCELLED", None))
    /\ UNCHANGED <<job, config, handler, mainPc, q, unfinished, semaphore,
                   worker, bucket, io, events>>

NextCancel ==
    \/ Next
    \/ CancelJob

SpecCancel == Init /\ [][NextCancel]_vars

\* ------------------------------------------------------- a large manifest
\* A manifest of one entry more than Settings.BUFFER_QUEUE_SIZE, run as a
\* mock job: upload_file_to_s3 returns from its mock branch, so the file
\* system and the object store are never asked anything, and with a single
\* worker task, so the run is one path.
LargeManifest == 1 .. (BUFFER_QUEUE_SIZE + 1)

InitLargeManifest ==
    /\ job \in [mock : {TRUE}, aws_unsigned : BOOLEAN, count : {None},
                status : {"PENDING"}]
    /\ MULTIPART_ENABLED \in BOOLEAN
    /\ WORKER_CONCURRENCY \in {0, 1}
    /\ S3_MAX_CONCURRENCY \in S3MaxConcurrencyValues
    /\ entries = [i \in LargeManifest |-> i]
    /\ files = [e \in LargeManifest |->
                  [kind |-> "ok", size |-> MULTIPART_THRESHOLD]]
    \* The run command found its one pending job.
    /\ pending_jobs = 1
    /\ mainPc = "run_job"
    /\ q = <<>>
    /\ unfinished = 0
    /\ semaphore = 0
    /\ worker = <<>>
    /\ bucket = [e \in LargeManifest |-> <<>>]
    /\ io = [e \in LargeManifest |->
               [fs |-> FALSE, s3 |-> FALSE, failed |-> FALSE]]
    /\ events = [e \in LargeManifest |-> <<>>]
    /\ handler = MessageHandlerInit(0)
    /\ updates = <<>>

\* The steps a mock job takes.
NextMock ==
    \/ RunJob
    \/ StartBatch
    \/ StartWorkers
    \/ \E w \in Workers : WorkerGet(w)
    \/ \E w \in Workers : AcquireSemaphore(w)
    \/ \E w \in Workers : Notify(w)
    \/ JoinAndCancel
    \/ Finalize

SpecLargeManifest == InitLargeManifest /\ [][NextMock]_vars

\* ------------------------------------------------------------ properties
Selected == 1 .. Len(SelectEntries(entries, job.count))
Finished == mainPc \in {"finalize", "done"}
InFlight == {w \in Workers : worker[w].entry # NoEntry}
Completed == <<[status |-> "COMPLETED", error |-> NoError]>>
Outcome(e) == events[e][1].status

\* The call in progress has returned to upload_file_to_s3 (or raised into
\* it): nothing more is asked of the object store for this entry.
Returned(w) == worker[w].pc = "notify"

CallsOf(w, op) == SelectSeq(worker[w].calls, LAMBDA c : c.op = op)
FailedCalls(w, op) == SelectSeq(worker[w].calls, LAMBDA c : c.op = op /\ ~c.ok)
LastCall(w) == worker[w].calls[Len(worker[w].calls)]
SucceededMultipart(w) ==
    /\ worker[w].calls # <<>>
    /\ LastCall(w).op = "complete_multipart_upload"
    /\ LastCall(w).ok

\* C1: over a run of N selected entries the handler is given exactly N
\* terminal entry outcomes, one per selected entry: never two for one entry,
\* none for an entry outside the run, and none missing once the run is over.
C1_ExactlyOneOutcomePerEntry ==
    /\ \A e \in EntryIds :
         /\ Len(events[e]) <= 1
         /\ e \notin Selected => events[e] = <<>>
         /\ \A i \in 1 .. Len(events[e]) :
              events[e][i].status \in {"COMPLETED", "ERROR"}
    /\ Finished => \A e \in Selected : Len(events[e]) = 1

C1_Witness ==
    /\ mainPc = "done"
    /\ Len(entries) = MaxEntries
    /\ WORKER_CONCURRENCY >= 2
    /\ \E e \in Selected : Outcome(e) = "COMPLETED"
    /\ \E e \in Selected : Outcome(e) = "ERROR"

\* C2: a read or write failure of one entry stays with that entry: the
\* outcome of an entry is ERROR exactly when one of its own reads or writes
\* raised, the run still ends with every other entry COMPLETED, and a
\* worker is never lost to a failure (while the run waits on the queue each
\* worker is idle or busy with an entry).
C2_FailureIsolation ==
    /\ \A e \in EntryIds :
         Len(events[e]) >= 1 => (Outcome(e) = "ERROR" <=> io[e].failed)
    /\ Finished =>
         \A e \in Selected : ~io[e].failed => events[e] = Completed
    /\ mainPc = "join" =>
         \A w \in Workers :
            worker[w].pc = "idle" <=> worker[w].entry = NoEntry

\* One worker only: it failed on the first entry and went on to complete
\* the second.
C2_Witness ==
    /\ mainPc = "done"
    /\ WORKER_CONCURRENCY <= 1
    /\ Cardinality(Selected) >= 2
    /\ ~job.mock
    /\ Outcome(1) = "ERROR"
    /\ events[2] = Completed

\* C3: an entry whose source file is missing or unreadable causes no
\* object-store call.
C3_NoStoreCallOnReadError ==
    /\ \A e \in EntryIds : files[e].kind # "ok" => ~io[e].s3
    /\ \A w \in InFlight :
         files[worker[w].entry].kind # "ok" => worker[w].calls = <<>>

CeilDiv(a, b) == (a + b - 1) \div b
BodySize(c) == c.Body.hi - c.Body.lo
WholeFile(e) == <<[lo |-> 0, hi |-> files[e].size]>>

\* C5: the parts a multipart upload sends carry the byte ranges [0,P),
\* [P,2P), ... of the file under the part numbers 1, 2, ...: each part
\* starts where the one before it ends, and once the upload is completed
\* the parts end at the file size and the stored object is the whole file.
C5_PartsReconstructFile ==
    \A w \in InFlight :
       LET e == worker[w].entry
           sent == CallsOf(w, "upload_part")
       IN  /\ \A i \in 1 .. Len(sent) :
                /\ sent[i].PartNumber = i
                /\ sent[i].Body.lo = (i - 1) * PART_SIZE
                /\ sent[i].Body.lo = IF i = 1 THEN 0 ELSE sent[i - 1].Body.hi
                /\ sent[i].Body.hi > sent[i].Body.lo
                /\ sent[i].Body.hi <= files[e].size
           /\ SucceededMultipart(w) =>
                /\ sent[Len(sent)].Body.hi = files[e].size
                /\ bucket[e] = WholeFile(e)

\* A completed upload of a file that is not a whole number of parts.
C5_Witness ==
    \E w \in InFlight :
       /\ SucceededMultipart(w)
       /\ files[worker[w].entry].size % PART_SIZE # 0
       /\ bucket[worker[w].entry] = WholeFile(worker[w].entry)

\* C6: a successful multipart upload of a file of F > 0 bytes issues
\* exactly ceil(F/P) upload_part calls, each of P bytes but the last, which
\* has F - P*(ceil(F/P) - 1) bytes.
C6_PartCountAndSizes ==
    \A w \in InFlight :
       LET F == files[worker[w].entry].size
           sent == CallsOf(w, "upload_part")
           n == CeilDiv(F, PART_SIZE)
       IN  (SucceededMultipart(w) /\ F > 0) =>
             /\ Len(sent) = n
             /\ \A i \in 1 .. (n - 1) : BodySize(sent[i]) = PART_SIZE
             /\ BodySize(sent[n]) = F - PART_SIZE * (n - 1)

\* Both shapes of last part: a full one and a short one.
C6_Witness ==
    /\ \E w \in InFlight :
          /\ SucceededMultipart(w)
          /\ files[worker[w].entry].size = 7 * PART_SIZE
          /\ BodySize(CallsOf(w, "upload_part")[7]) = PART_SIZE
    /\ \E w \in InFlight :
          /\ SucceededMultipart(w)
          /\ files[worker[w].entry].size = MULTIPART_THRESHOLD
          /\ BodySize(CallsOf(w, "upload_part")[7]) = 2 * 1024 * 1024

\* C7: once an upload_part call has failed, the only object-store call
\* that follows for that upload is one abort_multipart_upload: the abort is
\* pending while the worker is in the except clause and has been issued
\* exactly once when the upload returns; no upload_part and no
\* complete_multipart_upload comes after the failure.
C7_AbortOnceAfterPartFailure ==
    \A w \in InFlight :
       LET calls == worker[w].calls
       IN  \A i \in 1 .. Len(calls) :
              (calls[i].op = "upload_part" /\ ~calls[i].ok) =>
                 /\ Len(calls) <= i + 1
                 /\ Len(calls) = i <=> worker[w].pc = "mp_abort"
                 /\ Len(calls) = i + 1 =>
                      /\ calls[i + 1].op = "abort_multipart_upload"
                      /\ Returned(w)

\* The third part failed, two parts were accepted before it, the abort went
\* out and the upload has returned.
C7_Witness ==
    \E w \in InFlight :
       /\ Returned(w)
       /\ Len(worker[w].calls) = 5
       /\ worker[w].calls[4].op = "upload_part"
       /\ ~worker[w].calls[4].ok
       /\ Len(CallsOf(w, "abort_multipart_upload")) = 1

OriginalError(w) ==
    IF FailedCalls(w, "upload_part") # <<>> THEN "PartError"
    ELSE IF FailedCalls(w, "complete_multipart_upload") # <<>>
         THEN "CompleteError"
         ELSE "ReadError"

\* C9: a failed abort is swallowed: the entry update built after it is
\* ERROR with the error that led to the abort, no update ever carries the
\* abort's error, and the worker goes on (the run still ends with one
\* outcome per entry).
C9_AbortFailureSwallowed ==
    /\ \A w \in InFlight :
          (Returned(w) /\ FailedCalls(w, "abort_multipart_upload") # <<>>) =>
             EntryLog(w) = [status |-> "ERROR", error |-> OriginalError(w)]
    /\ \A e \in EntryIds :
          \A i \in 1 .. Len(events[e]) : events[e][i].error # "AbortError"
    /\ Finished => \A e \in Selected : Len(events[e]) = 1

\* A part failed, the abort failed too, and the upload has returned.
C9_Witness ==
    \E w \in InFlight :
       /\ Returned(w)
       /\ FailedCalls(w, "upload_part") # <<>>
       /\ FailedCalls(w, "abort_multipart_upload") # <<>>
       /\ worker[w].err = "PartError"

\* C10: in mock mode no entry causes a file-system access or an
\* object-store call, whatever its source file is, and the run ends with a
\* COMPLETED outcome for each of the N selected entries.
C10_MockRunDoesNoIO ==
    job.mock =>
       /\ \A e \in EntryIds : ~io[e].fs /\ ~io[e].s3 /\ bucket[e] = <<>>
       /\ \A w \in Workers : worker[w].fs = 0 /\ worker[w].calls = <<>>
       /\ \A e \in EntryIds :
             \A i \in 1 .. Len(events[e]) : events[e][i].status = "COMPLETED"
       /\ Finished => \A e \in Selected : events[e] = Completed

\* A finished mock run over a missing and an unreadable source file.
C10_Witness ==
    /\ job.mock
    /\ mainPc = "done"
    /\ Len(entries) = MaxEntries
    /\ \E e \in Selected : files[e].kind = "missing"
    /\ \E e \in Selected : files[e].kind = "unreadable"
    /\ \A e \in Selected : events[e] = Completed

\* C11: the queue between the producer loop and the workers never holds more
\* than Settings.BUFFER_QUEUE_SIZE entries.
C11_QueueWithinBufferSize ==
    Len(q) <= BUFFER_QUEUE_SIZE

\* Entries of the run by the outcome the handler was given.
CompletedEntries ==
    {e \in Selected : events[e] # <<>> /\ Outcome(e) = "COMPLETED"}
FailedEntries ==
    {e \in Selected : events[e] # <<>> /\ Outcome(e) = "ERROR"}

C13_CompletedAtMostTotal ==
    /\ handler.uploaded_files <= handler.total_files
    /\ handler.uploaded_files = Cardinality(CompletedEntries)
    /\ mainPc \in {"join", "finalize", "done"} =>
         /\ handler.total_files = Cardinality(Selected)
         /\ handler.total_files <= Len(entries)
         /\ job.count # None => handler.total_files <= job.count[1]

\* A count of 1 truncates a manifest of two entries: the run ends with one
\* entry completed out of a total of one.
C13_Witness ==
    /\ mainPc = "done"
    /\ job.count = <<1>>
    /\ Len(entries) = 2
    /\ handler.total_files = 1
    /\ handler.uploaded_files = 1
    /\ events[2] = <<>>

\* Workers whose entry has an object-store write in flight: between the end
\* of the read and the return of put_object, or inside a multipart session.
WritesInFlight ==
    {w \in Workers :
       worker[w].pc \in {"put", "mp_create", "mp_read", "mp_part",
                         "mp_complete", "mp_abort"}}

\* C14: at every moment the number of entries with an object-store write
\* in flight is at most the number of workers, max(1, WORKER_CONCURRENCY),
\* and at most the permits of the upload semaphore, S3_MAX_CONCURRENCY; no
\* two workers write the same entry and the semaphore never goes negative.
C14_WritesWithinConcurrencyLimits ==
    /\ Cardinality(WritesInFlight) <= Max(1, WORKER_CONCURRENCY)
    /\ Cardinality(WritesInFlight) <= S3_MAX_CONCURRENCY
    /\ \A v, w \in WritesInFlight :
         worker[v].entry = worker[w].entry => v = w
    /\ semaphore >= 0
    /\ mainPc = "join" =>
         semaphore + Cardinality({w \in Workers : HoldsPermit(w)})
            = S3_MAX_CONCURRENCY

\* Two workers and one permit: one entry is being written while the other
\* worker waits for the semaphore.
C14_Witness ==
    /\ WORKER_CONCURRENCY = 2
    /\ S3_MAX_CONCURRENCY = 1
    /\ Cardinality(WritesInFlight) = 1
    /\ semaphore = 0
    /\ \E w \in Workers : worker[w].pc = "acquire"

\* Workers with a disk read in flight: path.read_bytes or _read_chunk
\* handed to asyncio.to_thread and not yet returned.
ReadsInFlight == {w \in Workers : worker[w].pc \in {"read", "mp_read"}}

\* C15: at every moment the number of disk reads in flight is at most the
\* configured Settings.IO_CONCURRENCY, whatever the number of workers and
\* the permits of the upload semaphore are.
C15_ReadsWithinIoConcurrency ==
    \A c \in IoConcurrencyValues : Cardinality(ReadsInFlight) <= c

\* The write calls of an upload, and the exception a failed one raises.
WriteOps ==
    {"put_object", "create_multipart_upload", "upload_part",
     "complete_multipart_upload"}
ErrorOf(op) ==
    CASE op = "put_object" -> "PutError"
      [] op = "create_multipart_upload" -> "CreateError"
      [] op = "upload_part" -> "PartError"
      [] op = "complete_multipart_upload" -> "CompleteError"

\* C16: no write is retried.  For each entry at most one put_object is
\* issued, or at most one multipart session in which each part number is
\* uploaded at most once, never both; a failed write call is the last write
\* call of the entry, and the entry then gets one ERROR outcome carrying
\* the error of that call.  An entry that has its outcome is not taken up
\* again.
C16_NoRetryOfFailedWrite ==
    /\ \A w \in InFlight :
         LET calls == worker[w].calls
             parts == CallsOf(w, "upload_part")
         IN  /\ Len(CallsOf(w, "put_object")) <= 1
             /\ Len(CallsOf(w, "create_multipart_upload")) <= 1
             /\ Len(CallsOf(w, "complete_multipart_upload")) <= 1
             /\ CallsOf(w, "put_object") # <<>> => Len(calls) = 1
             /\ \A i, j \in 1 .. Len(parts) :
                  parts[i].PartNumber = parts[j].PartNumber => i = j
             /\ \A i \in 1 .. Len(calls) :
                  (calls[i].op \in WriteOps /\ ~calls[i].ok) =>
                     /\ \A j \in (i + 1) .. Len(calls) :
                          calls[j].op \notin WriteOps
                     /\ worker[w].err = ErrorOf(calls[i].op)
                     /\ Returned(w) =>
                          EntryLog(w) = [status |-> "ERROR",
                                         error |-> ErrorOf(calls[i].op)]
             /\ events[worker[w].entry] = <<>>
    /\ \A e \in EntryIds : Len(events[e]) <= 1

\* put_object raised: it is the only call of the entry and the update
\* built for the handler is ERROR with that error.
C16_Witness ==
    \E w \in InFlight :
       /\ Returned(w)
       /\ Len(worker[w].calls) = 1
       /\ worker[w].calls[1].op = "put_object"
       /\ ~worker[w].calls[1].ok
       /\ EntryLog(w) = [status |-> "ERROR", error |-> "PutError"]

\* C17: a progress event that cannot be delivered, for an entry or for the
\* job, never aborts the run: run_job and upload_to_s3_in_batch do not raise
\* because of it.  (In this model the only step that raises out of run_job
\* is the delivery of a job update.)
C17_DeliveryFailureNeverAborts ==
    mainPc # "raised"

\* C18: once the job service has the job as CANCELLED, the pipeline starts
\* no new entry upload: no worker takes a further entry from the queue, so
\* the entries still queued are not uploaded.
C18_NoNewUploadAfterCancel ==
    [][ServiceStatus = "CANCELLED" => q' = q]_vars

\* upload_to_s3_in_batch has returned and no worker task is left.
BatchTerminated ==
    /\ mainPc \in {"returned", "done"}
    /\ \A w \in Workers : worker[w].pc = "cancelled"

\* C19: under fair scheduling, with every call returning or raising, every
\* call of upload_to_s3_in_batch terminates: it returns, and every worker
\* task, the ones idle on the empty queue included, has ended.
C19_BatchTerminates ==
    (mainPc = "batch") ~> BatchTerminated

\* A full manifest run by two workers has ended with every worker task
\* ended.
C19_Witness ==
    /\ mainPc = "done"
    /\ Cardinality(Selected) = MaxEntries
    /\ Cardinality(Workers) = 2
    /\ \A w \in Workers : worker[w].pc = "cancelled"
    /\ \A e \in Selected : Len(events[e]) = 1

\* The job result: the last job update the job service was given.
JobResult == updates[Len(updates)]

\* What a JobUpdate says about the run: its uploaded_files is the count of
\* completed entries; the model class has no field for a total or for a
\* count of failed entries.
Breakdown(u) ==
    [total |-> None, completed |-> u.uploaded_files, failed |-> None]

\* C20: the job result delivered at the end of a run carries a total, a
\* completed and a failed count, with completed + failed = total and total
\* the number of entries selected for the run.
C20_JobResultHasBreakdown ==
    mainPc = "done" =>
       LET b == Breakdown(JobResult)
       IN  /\ b.total # None
           /\ b.completed # None
           /\ b.failed # None
           /\ b.completed[1] + b.failed[1] = b.total[1]
           /\ b.total[1] = Cardinality(Selected)

\* The number of COMPLETED updates the handler was given, over all entries.
RECURSIVE CompletedDelivered(_)
CompletedDelivered(ids) ==
    IF ids = {} THEN 0
    ELSE LET e == CHOOSE x \in ids : TRUE
         IN  Len(SelectSeq(events[e], LAMBDA u : u.status = "COMPLETED"))
               + CompletedDelivered(ids \ {e})

\* C21: under every interleaving of the workers no counter update is lost
\* and none is made twice: the handler's count of completed entries is the
\* number of COMPLETED outcomes delivered so far, and when the run ends it
\* is the number of selected entries whose reads and writes all succeeded.
C21_NoLostCounterUpdate ==
    /\ handler.uploaded_files = CompletedDelivered(EntryIds)
    /\ Finished =>
         handler.uploaded_files
            = Cardinality({e \in Selected : ~io[e].failed})

\* Two workers with a permit each have both finished their write and are
\* both about to deliver a COMPLETED outcome to the one handler.
C21_Witness ==
    /\ Cardinality(Workers) = 2
    /\ \A w \in Workers : worker[w].pc = "notify" /\ worker[w].err = NoError
    /\ handler.uploaded_files = 0

\* The bytes of the source files of a set of entries.
RECURSIVE PayloadBytes(_)
PayloadBytes(ids) ==
    IF ids = {} THEN 0
    ELSE LET e == CHOOSE x \in ids : TRUE
         IN  files[e].size + PayloadBytes(ids \ {e})

\* C22: when a run that transfers files (not a mock run) ends, the total of
\* bytes the handler has summed from the COMPLETED outcomes is the sum of
\* the payload sizes of the completed entries.
C22_TotalBytesIsSumOfCompleted ==
    (mainPc = "done" /\ ~job.mock) =>
       handler.uploaded_size_bytes = PayloadBytes(CompletedEntries)

\* C23: a multipart upload goes Initiated -> PartsUploading -> Completed or
\* Aborted.  Every upload_part, completion and abort comes after a
\* create_multipart_upload that returned a session id; the completion is
\* issued only after every part of the file was uploaded successfully and
\* nothing failed; a session completed successfully gets no further call,
\* in particular no abort; an abort is the last call of its session.
C23_MultipartStateOrder ==
    \A w \in InFlight :
       LET calls == worker[w].calls
           MpOps == {"upload_part", "complete_multipart_upload",
                     "abort_multipart_upload"}
       IN  \A i \in 1 .. Len(calls) :
              /\ calls[i].op \in MpOps =>
                   /\ i > 1
                   /\ calls[1].op = "create_multipart_upload"
                   /\ calls[1].ok
                   /\ worker[w].upload_id = worker[w].entry
              /\ calls[i].op = "create_multipart_upload" => i = 1
              /\ calls[i].op = "complete_multipart_upload" =>
                   /\ \A j \in 2 .. (i - 1) :
                        calls[j].op = "upload_part" /\ calls[j].ok
                   /\ i - 2 = CeilDiv(worker[w].file_size, PART_SIZE)
                   /\ worker[w].offset = worker[w].file_size
                   /\ worker[w].err = NoError \/ ~calls[i].ok
                   /\ calls[i].ok => i = Len(calls)
              /\ calls[i].op = "abort_multipart_upload" =>
                   /\ i = Len(calls)
                   /\ worker[w].err # NoError

\* One session was completed after its last part and has returned; another
\* was aborted after a part failed.
C23_Witness ==
    /\ \E w \in InFlight :
          /\ Returned(w)
          /\ SucceededMultipart(w)
          /\ Len(worker[w].calls) = 9
    /\ \E w \in InFlight :
          /\ Returned(w)
          /\ FailedCalls(w, "upload_part") # <<>>
          /\ LastCall(w).op = "abort_multipart_upload"

\* C24: within one multipart upload the k-th upload_part call carries part
\* number k (1, 2, ..., no gap, no repeat), and the Parts list, as it grows
\* and as it is passed to complete_multipart_upload, is the list of the
\* accepted parts in ascending part-number order, the k-th pair being part
\* number k with the ETag the store returned for it; a completion gets all
\* ceil(F/P) of them.
C24_PartNumbersAndPartsList ==
    \A w \in InFlight :
       LET sent == CallsOf(w, "upload_part")
           done == CallsOf(w, "complete_multipart_upload")
           accepted == SelectSeq(sent, LAMBDA c : c.ok)
           listed(Parts) ==
              /\ Len(Parts) = Len(accepted)
              /\ \A k \in 1 .. Len(Parts) :
                   Parts[k] = [ETag |-> ETagOf(worker[w].upload_id, k),
                               PartNumber |-> k]
       IN  /\ \A k \in 1 .. Len(sent) : sent[k].PartNumber = k
           /\ \A k \in 1 .. Len(accepted) : accepted[k].PartNumber = k
           /\ sent # <<>> => listed(worker[w].parts)
           /\ \A i \in 1 .. Len(done) :
                /\ listed(done[i].Parts)
                /\ Len(done[i].Parts)
                     = CeilDiv(worker[w].file_size, PART_SIZE)

\* A completion was issued with seven parts listed, part 7 last.
C24_Witness ==
    \E w \in InFlight :
       LET done == CallsOf(w, "complete_multipart_upload")
       IN  /\ done # <<>>
           /\ Len(done[1].Parts) = 7
           /\ done[1].Parts[7].PartNumber = 7
           /\ done[1].Parts[7].ETag = ETagOf(worker[w].upload_id, 7)

\* Workers whose upload_part call for entry e is awaited.
PartsInFlight(e) ==
    {w \in Workers : worker[w].entry = e /\ worker[w].pc = "mp_part"}

\* C25: for one object at most one upload_part is in flight at any moment,
\* and part k+1 is read and started only after the uploads of parts 1..k
\* have returned, whatever the other workers are uploading meanwhile.
C25_OnePartInFlightPerObject ==
    /\ \A e \in EntryIds : Cardinality(PartsInFlight(e)) <= 1
    /\ \A w \in InFlight :
         worker[w].pc \in {"mp_read", "mp_part"} =>
            LET sent == CallsOf(w, "upload_part")
            IN  /\ worker[w].part_number = Len(sent) + 1
                /\ \A k \in 1 .. Len(sent) : sent[k].ok
                /\ Len(worker[w].parts) = Len(sent)

\* Two objects are uploaded at once: each worker has one upload_part in
\* flight, one of them its third part, the other its first.
C25_Witness ==
    \E v, w \in InFlight :
       /\ worker[v].entry # worker[w].entry
       /\ worker[v].pc = "mp_part"
       /\ worker[w].pc = "mp_part"
       /\ worker[v].part_number = 3
       /\ worker[w].part_number = 1

\* C26 as stated: the upload workers are started and waiting on the queue
\* before the first entry is submitted, so entries are never in the queue
\* while there is no worker.
C26_WorkersStartedBeforeFirstSubmit ==
    unfinished > 0 => Workers # {}

\* C26, amended: every selected entry is put on the queue first, while no
\* worker exists; then max(1, WORKER_CONCURRENCY) workers are created, and
\* only after that is the first entry taken from the queue.
C26_EnqueuedBeforeWorkersStart ==
    /\ mainPc = "start_workers" =>
          /\ Workers = {}
          /\ q = SelectEntries(entries, job.count)
          /\ unfinished = Len(q)
    /\ mainPc = "join" => Cardinality(Workers) = Max(1, WORKER_CONCURRENCY)
    /\ (mainPc \in {"start_workers", "join", "finalize", "done"}
          /\ q # SelectEntries(entries, job.count)) => Workers # {}

\* Both selected entries are on the queue and no worker has been created.
C26_Witness ==
    /\ mainPc = "start_workers"
    /\ Len(q) = 2
    /\ Workers = {}

\* The job-level completion event has been handed to the progress sink.
JobCompletionEmitted ==
    \E i \in 1 .. Len(updates) : updates[i].status = "COMPLETED"

\* C27: the job-level COMPLETED event is emitted only after every selected
\* entry has its terminal outcome and every worker has terminated, and no
\* entry outcome is delivered after it: from its emission on, the sink holds
\* exactly one outcome per selected entry and none for any other entry.
C27_CompletionAfterAllOutcomes ==
    JobCompletionEmitted =>
       /\ \A e \in Selected : Len(events[e]) = 1
       /\ \A e \in EntryIds \ Selected : events[e] = <<>>
       /\ \A w \in Workers : worker[w].pc = "cancelled"
       /\ q = <<>>
       /\ unfinished = 0

\* The completion event follows two entry outcomes, one of them a failure,
\* and the end of two workers.
C27_Witness ==
    /\ JobCompletionEmitted
    /\ Cardinality(Selected) = 2
    /\ Cardinality(Workers) = 2
    /\ \A w \in Workers : worker[w].pc = "cancelled"
    /\ Outcome(1) = "COMPLETED"
    /\ Outcome(2) = "ERROR"

\* Entries put on the queue that have no outcome yet: still queued, or taken
\* by a worker that has not called task_done for them.
Unprocessed == {e \in Selected : events[e] = <<>>}

\* C28: no worker is cancelled while an enqueued entry is unprocessed or in
\* flight.  While the batch waits in q.join() the unfinished count is the
\* number of queued entries plus the entries held by workers (one task_done
\* per get), and a worker is cancelled only when that count is zero, the
\* queue is empty and the worker holds no entry.
C28_NoCancelWhileUnfinished ==
    /\ mainPc = "join" =>
          /\ unfinished = Len(q) + Cardinality(InFlight)
          /\ \A w \in Workers : worker[w].pc # "cancelled"
    /\ \A w \in Workers :
          worker[w].pc = "cancelled" =>
             /\ unfinished = 0
             /\ q = <<>>
             /\ Unprocessed = {}
             /\ worker[w].entry = NoEntry

\* Two workers were cancelled after two entries were processed.
C28_Witness ==
    /\ Cardinality(Workers) = 2
    /\ \A w \in Workers : worker[w].pc = "cancelled"
    /\ Cardinality(Selected) = 2
    /\ Unprocessed = {}

\* C29: for every entry, the progress sink receives a STARTED event for the
\* entry before it receives the entry's terminal success or failure event.
C29_StartedBeforeTerminal ==
    \A e \in EntryIds :
       \A j \in 1 .. Len(events[e]) :
          events[e][j].status \in {"COMPLETED", "ERROR"} =>
             \E i \in 1 .. (j - 1) : events[e][i].status = "STARTED"

\* min(k, N) for a job with count limit k on a manifest of N entries, N for
\* a job without a count limit.
ExpectedTotal ==
    IF job.count = None THEN Len(entries)
    ELSE Min(job.count[1], Len(entries))

\* Entries a worker has taken from the queue: held by a worker, or reported.
Taken ==
    {worker[w].entry : w \in InFlight} \cup {e \in EntryIds : events[e] # <<>>}

\* C30: with a count limit k >= 0 on a manifest of N entries the entries
\* processed are exactly the first min(k, N) entries of the manifest, taken
\* in manifest order, and the handler's total is min(k, N); with no count
\* limit all N entries are processed.
C30_FirstMinCountEntries ==
    /\ mainPc \in {"start_workers", "join", "finalize", "done"} =>
          /\ handler.total_files = ExpectedTotal
          /\ \E i \in 0 .. ExpectedTotal :
                /\ q = SubSeq(entries, i + 1, ExpectedTotal)
                /\ Taken = {entries[j] : j \in 1 .. i}
    /\ Finished =>
          {e \in EntryIds : events[e] # <<>>}
             = {entries[j] : j \in 1 .. ExpectedTotal}
    /\ mainPc = "returned" => Len(entries) = 0 /\ Taken = {}

\* A job limited to one entry of a manifest of two has finished: the first
\* entry has its outcome, the second was never touched, the total is one.
C30_Witness ==
    /\ Finished
    /\ job.count = <<1>>
    /\ Len(entries) = 2
    /\ events[1] # <<>>
    /\ events[2] = <<>>
    /\ handler.total_files = 1

\* Workers holding entry e: taken from the queue, task_done not yet called.
HoldersOf(e) == {w \in InFlight : worker[w].entry = e}

\* C31: under every interleaving no entry is held by two workers at once: an
\* entry taken from the queue is held by one worker, is no longer in the
\* queue and has no outcome yet, so no two workers write the same entry.
C31_EntryHeldByOneWorker ==
    /\ \A e \in EntryIds : Cardinality(HoldersOf(e)) <= 1
    /\ \A w \in InFlight :
          /\ \A i \in 1 .. Len(q) : q[i] # worker[w].entry
          /\ events[worker[w].entry] = <<>>
          /\ worker[w].entry \in Selected
    /\ \A i, j \in 1 .. Len(q) : q[i] = q[j] => i = j

\* Two workers have object-store writes in flight at once, for two entries.
C31_Witness ==
    \E v, w \in WritesInFlight :
       /\ v # w
       /\ worker[v].entry # worker[w].entry
       /\ worker[v].pc = "put"
       /\ worker[w].pc = "put"

\* Worker w is on the multipart path of its entry.
OnMultipartPath(w) ==
    \/ worker[w].pc \in {"mp_create", "mp_read", "mp_part", "mp_complete",
                         "mp_abort"}
    \/ \E i \in 1 .. Len(worker[w].calls) : worker[w].calls[i].op # "put_object"

C33_CompletedImpliesWriteSucceeded ==
    ~job.mock =>
       /\ \A w \in InFlight :
             (Returned(w) /\ EntryLog(w).status = "COMPLETED") =>
                /\ worker[w].calls # <<>>
                /\ LastCall(w).op \in {"put_object", "complete_multipart_upload"}
                /\ \A i \in 1 .. Len(worker[w].calls) : worker[w].calls[i].ok
                /\ CallsOf(w, "abort_multipart_upload") = <<>>
                /\ LastCall(w).op = "complete_multipart_upload" =>
                      Len(CallsOf(w, "upload_part"))
                         = CeilDiv(files[worker[w].entry].size, PART_SIZE)
       /\ \A e \in EntryIds :
             (events[e] # <<>> /\ Outcome(e) = "COMPLETED") =>
                /\ io[e].s3
                /\ ~io[e].failed
                /\ bucket[e] = WholeFile(e)

\* A non-mock run ended with one entry COMPLETED after a multipart upload
\* and the other reported ERROR after its own write failed.
C33_Witness ==
    /\ ~job.mock
    /\ mainPc = "done"
    /\ \E e \in Selected :
          /\ Outcome(e) = "COMPLETED"
          /\ files[e].size >= MULTIPART_THRESHOLD
          /\ MULTIPART_ENABLED
          /\ ~job.aws_unsigned
    /\ \E e \in Selected :
          /\ Outcome(e) = "ERROR"
          /\ io[e].s3

\* C34: once the job service has the job as CANCELLED while its run is in
\* progress, the run does not overwrite that status: no step of the run, the
\* final job update of upload_to_s3_in_batch included, moves the job from
\* CANCELLED to COMPLETED.
C34_CancelledNotOverwritten ==
    [][ServiceStatus = "CANCELLED" => ServiceStatus' # "COMPLETED"]_vars

\* C35: for a job whose manifest has no entries upload_to_s3_in_batch
\* returns without starting workers and without the job-level completion
\* event: the job, set to RUNNING by run_job, stays RUNNING and never
\* reaches COMPLETED in that run.
C35_EmptyManifestStaysRunning ==
    /\ Len(entries) = 0 =>
          /\ mainPc \in {"app_run_job", "not_run", "run_job", "raised",
                         "batch", "returned"}
          /\ Workers = {}
          /\ ~JobCompletionEmitted
          /\ job.status # "COMPLETED"
    /\ mainPc = "returned" =>
          /\ Len(entries) = 0
          /\ job.status = "RUNNING"
          /\ updates = <<JobUpdate("RUNNING", None)>>
          /\ q = <<>>
          /\ unfinished = 0
          /\ \A e \in EntryIds : events[e] = <<>>

\* The run over an empty manifest has returned; the job is RUNNING.
C35_Witness ==
    /\ mainPc = "returned"
    /\ Len(entries) = 0
    /\ ServiceStatus = "RUNNING"
    /\ Workers = {}

\* An ERROR outcome is delivered in this step.
ErrorDelivered ==
    \E e \in EntryIds :
       /\ Len(events'[e]) = Len(events[e]) + 1
       /\ events'[e][Len(events'[e])].status = "ERROR"

\* C36: an ERROR outcome leaves the job counters unchanged.  Handling an
\* update that is not completed, whatever byte count comes with it, changes
\* neither uploaded_files nor uploaded_size_bytes, and the step of a run
\* that delivers an ERROR outcome leaves both counters as they were.
C36_ErrorLeavesCountersUnchanged ==
    /\ [](\A b \in FileSizes : HandleUpdate(handler, FALSE, b) = handler)
    /\ [][ErrorDelivered =>
             /\ handler'.uploaded_files = handler.uploaded_files
             /\ handler'.uploaded_size_bytes = handler.uploaded_size_bytes]_vars

\* The first entry was counted as completed, the second was reported ERROR
\* and the count is still one.
C36_Witness ==
    /\ Cardinality(Selected) = 2
    /\ events[1] = Completed
    /\ events[2] # <<>>
    /\ Outcome(2) = "ERROR"
    /\ handler.uploaded_files = 1

\* C37: the CLI run operation starts the pipeline only when exactly one
\* PENDING job matches: with no pending job or with more than one, no job
\* is moved to RUNNING and no upload is started.
C37_RunsOnlySinglePendingJob ==
    /\ pending_jobs # 1 =>
          /\ mainPc \in {"app_run_job", "not_run"}
          /\ job.status = "PENDING"
          /\ updates = <<>>
          /\ Workers = {}
          /\ q = <<>>
          /\ \A e \in EntryIds :
                events[e] = <<>> /\ bucket[e] = <<>> /\ ~io[e].fs /\ ~io[e].s3
    /\ mainPc \notin {"app_run_job", "not_run"} => pending_jobs = 1

\* The run command was given with two pending jobs and has returned.
C37_Witness ==
    /\ mainPc = "not_run"
    /\ pending_jobs = 2
    /\ Len(entries) >= 1

\* Every selected entry has been processed and the run is over.
AllEntriesProcessed ==
    /\ mainPc = "done"
    /\ \A e \in Selected : Len(events[e]) = 1

\* C38: for every configured worker concurrency, zero and negative values
\* included, at least one worker is started, so under fair scheduling a
\* non-empty run with at least one semaphore permit makes progress and
\* processes all its entries.
C38_AtLeastOneWorker ==
    /\ [](mainPc \in {"join", "finalize", "done"} =>
             /\ Cardinality(Workers) >= 1
             /\ WORKER_CONCURRENCY >= 1 =>
                   Cardinality(Workers) = WORKER_CONCURRENCY)
    /\ (mainPc = "start_workers" /\ S3_MAX_CONCURRENCY >= 1)
          ~> AllEntriesProcessed

\* A run configured with a negative worker concurrency has processed its
\* two entries with one worker.
C38_Witness ==
    /\ WORKER_CONCURRENCY < 0
    /\ Cardinality(Workers) = 1
    /\ Cardinality(Selected) = 2
    /\ AllEntriesProcessed

====
